---- MODULE Spec2Model ----
(***************************************************************************)
(* The navigation stack of the terminal UI (pkg/tui/stack.go): StackModel, *)
(* its Push / Pop / Init / Update / StackSizeMsg, together with the        *)
(* runtime that executes the commands Update returns.                      *)
(***************************************************************************)
EXTENDS Integers, Sequences, FiniteSets, TLC

\* ------------------------------------------------------------------ bounds

\* Deepest stack the environment builds (pushes are disabled at this depth).
MaxDepth == 3

\* Most load tasks running at the same time.
MaxLoads == 2

\* Number of animation frames of the loading spinner.
SpinnerFrames == 2

\* ------------------------------------------------------------- program data

\* lipgloss.Height(m.header()): one line of breadcrumbs between a top and a
\* bottom margin of one line each (stackHeaderStyle).
HeaderHeight == 3

\* lipgloss.Height(m.footer()): the footer is a single line.
FooterHeight == 1

\* The text of the error screen pushed when the clipboard write fails.
ClipboardFailure == "Failed to copy command to clipboard"

\* Terminal sizes the host runtime reports.
Sizes == {<<100, 40>>, <<80, 24>>}

\* Error texts carried by ErrorMsg, messages carried by DoneMsg.
Errors == {"failed to load owners"}
DoneMessages == {"Workspace set to w"}

\* tea.Model of a screen, by what the stack knows of it: the stack never
\* inspects a screen, it only calls its Init, Update and View.
NewScreenModel == [kind |-> "screen", text |-> ""]

\* NewErrorModel(text): the read-only screen that displays an error.
NewErrorModel(text) == [kind |-> "error", text |-> text]

\* ModelWithCmd
ModelWithCmd(model, cmd, breadcrumb) ==
  [Model |-> model, Cmd |-> cmd, Breadcrumb |-> breadcrumb]

\* The entries the host pushes.
HostEntries ==
  { ModelWithCmd(NewScreenModel, "", "Services"),
    ModelWithCmd(NewScreenModel, "render deploy svc-1", "Deploy") }

\* ---------------------------------------------------------------- messages

NoMsg ==
  [type |-> "", key |-> "", next |-> "", text |-> "", current |-> FALSE,
   Width |-> 0, Height |-> 0, Top |-> 0]

KeyMsg(k) == [NoMsg EXCEPT !.type = "KeyMsg", !.key = k]
ClearScreenMsg(n) == [NoMsg EXCEPT !.type = "ClearScreenMsg", !.next = n]
LoadingDataMsg == [NoMsg EXCEPT !.type = "LoadingDataMsg"]
DoneLoadingDataMsg == [NoMsg EXCEPT !.type = "DoneLoadingDataMsg"]
ErrorMsg(e) == [NoMsg EXCEPT !.type = "ErrorMsg", !.text = e]
\* spinner.TickMsg; current: the tick carries the ID and tag of the stack's
\* present loadingSpinner (a spinner accepts only its own latest tick).
TickMsg(current) == [NoMsg EXCEPT !.type = "TickMsg", !.current = current]
DoneMsg(t) == [NoMsg EXCEPT !.type = "DoneMsg", !.text = t]
WindowSizeMsg(w, h) ==
  [NoMsg EXCEPT !.type = "WindowSizeMsg", !.Width = w, !.Height = h]
OtherMsg == [NoMsg EXCEPT !.type = "OtherMsg"]

Keys == {"CtrlC", "CtrlD", "CtrlS", "x"}

\* The follow-up events a ClearScreenMsg carries, by tag.
NextMsgs == {"OtherMsg", "ErrorMsg"}

NextMsgOf(tag) ==
  IF tag = "ErrorMsg" THEN ErrorMsg("failed to load owners") ELSE OtherMsg

\* ---------------------------------------------------------------- commands

\* A tea.Cmd, by the effects it has when the runtime executes it:
\*   quit    tea.Quit
\*   seq     the order of a tea.Sequence (<<>> when it is none)
\*   println the text of a tea.Println
\*   inits   the stack positions whose Model.Init() command is included
\*   size    the deferred func() tea.Msg { return m.StackSizeMsg() }
\*   task    the load task carried by a LoadingDataMsg
\*   tick    the spinner's Tick
\*   next    the tag of the NextMsg a ClearScreenMsg re-dispatches
\*   screen  the command the top screen's Update returned
NoCmd ==
  [quit |-> FALSE, seq |-> <<>>, println |-> "", inits |-> {}, size |-> FALSE,
   task |-> FALSE, tick |-> FALSE, next |-> "", screen |-> FALSE]

Quit == [NoCmd EXCEPT !.quit = TRUE]

NoClip == [written |-> FALSE, text |-> ""]

\* ------------------------------------------------------------------- state

VARIABLES
  stack,           \* StackModel.stack
  width,           \* StackModel.width
  height,          \* StackModel.height
  loadingSpinner,  \* StackModel.loadingSpinner: Nil or [frame |-> n]
  status,          \* "new" | "running" | "quit" | "panic"
  sizeCmd,         \* a deferred StackSizeMsg command of Push is pending
  nextMsg,         \* tag of the NextMsg waiting to be dispatched ("" if none)
  tasks,           \* load tasks handed to the runtime and not yet completed
  last             \* the last operation: its input and what it returned

vars ==
  <<stack, width, height, loadingSpinner, status, sizeCmd, nextMsg, tasks, last>>

Nil == [frame |-> -1]

newSpinner == [frame |-> 0]

\* The StackModel as a value.
Self ==
  [stack |-> stack, width |-> width, height |-> height,
   loadingSpinner |-> loadingSpinner]

Top(m) == m.stack[Len(m.stack)]

\* ------------------------------------------------------ StackModel methods

\* func (m *StackModel) StackSizeMsg() StackSizeMsg
StackSizeMsg(m) ==
  [NoMsg EXCEPT !.type = "StackSizeMsg",
                !.Width = m.width,
                !.Height = m.height - HeaderHeight - FooterHeight,
                !.Top = HeaderHeight]

\* The result of a method that returns a command: the model after it, the
\* command, the stack position the event was forwarded to (0: none), the
\* event forwarded, and the clipboard write made.
Result(m, cmd) ==
  [m |-> m, cmd |-> cmd, fwd |-> 0, sub |-> NoMsg, clip |-> NoClip]

\* func (m *StackModel) Push(model ModelWithCmd) tea.Cmd
Push(m, model) ==
  LET m2 == [m EXCEPT !.stack = Append(m.stack, model)]
  IN  Result(m2, [NoCmd EXCEPT !.inits = {Len(m2.stack)}, !.size = TRUE])

\* Pop with the wrong end of the slice: m.stack = m.stack[1:].
PopFirst(m) ==
  IF Len(m.stack) > 0
  THEN [m EXCEPT !.stack = SubSeq(m.stack, 2, Len(m.stack))]
  ELSE m

\* Pop that cuts the whole slice: m.stack = m.stack[:0].
PopAll(m) == [m EXCEPT !.stack = <<>>]

\* func (m *StackModel) Pop()
Pop(m) ==
  IF Len(m.stack) > 0
  THEN [m EXCEPT !.stack = SubSeq(m.stack, 1, Len(m.stack) - 1)]
  ELSE m

\* func (m *StackModel) Init() tea.Cmd
InitCmd(m) == [NoCmd EXCEPT !.inits = 1 .. Len(m.stack)]

\* The forward with the wrong index: m.stack[0].Model.Update(subMsg).
ForwardToBottom(m, subMsg, clip) ==
  IF Len(m.stack) > 0
  THEN [m |-> m,
        cmd |-> [NoCmd EXCEPT !.screen = TRUE],
        fwd |-> 1, sub |-> subMsg, clip |-> clip]
  ELSE [Result(m, NoCmd) EXCEPT !.clip = clip]

\* Update, lines 148-153: forward subMsg to the top screen, store the screen
\* it returns in the top entry and pass its command up. fwd is the position
\* of the entry whose Update was called.
Forward(m, subMsg, clip) ==
  IF Len(m.stack) > 0
  THEN [m |-> m,
        cmd |-> [NoCmd EXCEPT !.screen = TRUE],
        fwd |-> Len(m.stack), sub |-> subMsg, clip |-> clip]
  ELSE [Result(m, NoCmd) EXCEPT !.clip = clip]

\* Update, lines 84-86
UpdateEmpty(m) == Result(m, Quit)

\* case tea.KeyCtrlC
UpdateCtrlC(m) == Result(m, Quit)

\* case tea.KeyCtrlD
UpdateCtrlD(m) ==
  LET m2 == Pop(m)
  IN  IF Len(m2.stack) = 0 THEN Result(m2, Quit) ELSE Result(m2, InitCmd(m2))

\* case tea.KeyCtrlS; clipOk is the outcome of clipboard.WriteAll
UpdateCtrlS(m, msg, clipOk) ==
  LET clip == [written |-> TRUE, text |-> Top(m).Cmd]
      m2 == IF clipOk
            THEN m
            ELSE Push(m, ModelWithCmd(NewErrorModel(ClipboardFailure), "", "")).m
  IN  Forward(m2, msg, clip)

\* case ClearScreenMsg
UpdateClearScreen(m, msg) ==
  Result([m EXCEPT !.stack = <<>>], [NoCmd EXCEPT !.next = msg.next])

\* case LoadingDataMsg that forwards the task without installing the spinner.
UpdateLoadingDataNoSpinner(m) ==
  Result(m, [NoCmd EXCEPT !.tick = TRUE, !.task = TRUE])

\* case LoadingDataMsg
UpdateLoadingData(m) ==
  Result([m EXCEPT !.loadingSpinner = newSpinner],
         [NoCmd EXCEPT !.tick = TRUE, !.task = TRUE])

\* case DoneLoadingDataMsg
UpdateDoneLoadingData(m) == Result([m EXCEPT !.loadingSpinner = Nil], NoCmd)

\* case ErrorMsg that shows the error in place of the current screen.
UpdateErrorReplacesTop(m, msg) ==
  Result(Push(Pop(m), ModelWithCmd(NewErrorModel(msg.text), "", "")).m, NoCmd)

\* case ErrorMsg
UpdateError(m, msg) ==
  Result(Push(m, ModelWithCmd(NewErrorModel(msg.text), "", "")).m, NoCmd)

\* m.loadingSpinner.Update(msg): the spinner advances its frame and schedules
\* its next tick for a tick of its own, and ignores any other tick.
SpinnerUpdate(m, msg) ==
  IF msg.current
  THEN Result([m EXCEPT !.loadingSpinner.frame = (@ + 1) % SpinnerFrames],
              [NoCmd EXCEPT !.tick = TRUE])
  ELSE Result(m, NoCmd)

\* case spinner.TickMsg that returns in both branches: a tick without a
\* loading spinner is dropped.
UpdateTickDropped(m, msg) ==
  IF m.loadingSpinner # Nil THEN SpinnerUpdate(m, msg) ELSE Result(m, NoCmd)

\* case spinner.TickMsg
UpdateTick(m, msg) ==
  IF m.loadingSpinner # Nil
  THEN SpinnerUpdate(m, msg)
  ELSE Forward(m, msg, NoClip)

\* case DoneMsg that quits without printing the message.
UpdateDoneNoPrintln(m, msg) ==
  LET m2 == Pop(m)
  IN  IF Len(m2.stack) = 0 THEN Result(m2, Quit) ELSE Result(m2, InitCmd(m2))

\* case DoneMsg that also drops the loading spinner.
UpdateDoneClearsSpinner(m, msg) ==
  LET m2 == [Pop(m) EXCEPT !.loadingSpinner = Nil]
  IN  IF Len(m2.stack) = 0
      THEN Result(m2, [NoCmd EXCEPT !.quit = TRUE, !.println = msg.text,
                                    !.seq = <<"Println", "Quit">>])
      ELSE Result(m2, InitCmd(m2))

\* case DoneMsg
UpdateDone(m, msg) ==
  LET m2 == Pop(m)
  IN  IF Len(m2.stack) = 0
      THEN Result(m2, [NoCmd EXCEPT !.quit = TRUE, !.println = msg.text,
                                    !.seq = <<"Println", "Quit">>])
      ELSE Result(m2, InitCmd(m2))

\* case tea.WindowSizeMsg that leaves subMsg as the raw resize.
UpdateWindowSizeRaw(m, msg) ==
  LET m2 == [m EXCEPT !.width = msg.Width, !.height = msg.Height]
  IN  Forward(m2, msg, NoClip)

\* case tea.WindowSizeMsg
UpdateWindowSize(m, msg) ==
  LET m2 == [m EXCEPT !.width = msg.Width, !.height = msg.Height]
  IN  Forward(m2, StackSizeMsg(m2), NoClip)

\* func (m *StackModel) Update(msg tea.Msg) (tea.Model, tea.Cmd)
Update(m, msg, clipOk) ==
  IF Len(m.stack) = 0 THEN UpdateEmpty(m)
  ELSE CASE msg.type = "KeyMsg" /\ msg.key = "CtrlC" -> UpdateCtrlC(m)
         [] msg.type = "KeyMsg" /\ msg.key = "CtrlD" -> UpdateCtrlD(m)
         [] msg.type = "KeyMsg" /\ msg.key = "CtrlS" -> UpdateCtrlS(m, msg, clipOk)
         [] msg.type = "ClearScreenMsg" -> UpdateClearScreen(m, msg)
         [] msg.type = "LoadingDataMsg" -> UpdateLoadingData(m)
         [] msg.type = "DoneLoadingDataMsg" -> UpdateDoneLoadingData(m)
         [] msg.type = "ErrorMsg" -> UpdateError(m, msg)
         [] msg.type = "TickMsg" -> UpdateTick(m, msg)
         [] msg.type = "DoneMsg" -> UpdateDone(m, msg)
         [] msg.type = "WindowSizeMsg" -> UpdateWindowSize(m, msg)
         [] OTHER -> Forward(m, msg, NoClip)

\* ------------------------------------------------------------------- render

\* strings.Join(ss, sep)
RECURSIVE Join(_, _)
Join(ss, sep) ==
  IF Len(ss) = 0 THEN ""
  ELSE IF Len(ss) = 1 THEN ss[1]
  ELSE ss[1] \o sep \o Join(Tail(ss), sep)

\* header(), lines 177-182: the breadcrumbs of the entries that have one, in
\* stack order.
RECURSIVE breadCrumbs(_)
breadCrumbs(s) ==
  IF Len(s) = 0 THEN <<>>
  ELSE (IF Head(s).Breadcrumb # "" THEN <<Head(s).Breadcrumb>> ELSE <<>>)
         \o breadCrumbs(Tail(s))

\* header() that appends every entry's breadcrumb, empty or not.
RECURSIVE breadCrumbsAll(_)
breadCrumbsAll(s) ==
  IF Len(s) = 0 THEN <<>>
  ELSE <<Head(s).Breadcrumb>> \o breadCrumbsAll(Tail(s))

headerAll(m) == Join(breadCrumbsAll(m.stack), " > ")

\* func (m *StackModel) header() string (the text; styles add no text)
header(m) == Join(breadCrumbs(m.stack), " > ")

quitCommand == "[Ctrl+C] Quit"
prevCommand == "[Ctrl+D] Previous command"
saveToClipboard == "[Ctrl+S] Copy command to clipboard"

\* footer() that offers the previous command on any non-empty stack.
footerPrevAlways(m) ==
  LET commands ==
        <<quitCommand>>
        \o (IF Len(m.stack) > 0 THEN <<prevCommand>> ELSE <<>>)
        \o (IF Top(m).Cmd # "" THEN <<saveToClipboard>> ELSE <<>>)
  IN  "Navigation: " \o Join(commands, " ")

\* func (m *StackModel) footer() string (the text; styles add no text)
footer(m) ==
  LET commands ==
        <<quitCommand>>
        \o (IF Len(m.stack) > 1 THEN <<prevCommand>> ELSE <<>>)
        \o (IF Top(m).Cmd # "" THEN <<saveToClipboard>> ELSE <<>>)
  IN  "Navigation: " \o Join(commands, " ")

\* What View() returns: the spinner overlay placed in width x height, the
\* empty string, or header, the top screen's View() and footer joined
\* vertically. body is the position of the screen rendered (0: none).
NoView ==
  [kind |-> "empty", frame |-> -1, width |-> 0, height |-> 0,
   header |-> "", body |-> 0, model |-> NewScreenModel, footer |-> ""]

\* View() that tests the empty stack before the loading spinner.
ViewEmptyFirst(m) ==
  IF Len(m.stack) = 0 THEN NoView
  ELSE IF m.loadingSpinner # Nil
  THEN [NoView EXCEPT !.kind = "loading", !.frame = m.loadingSpinner.frame,
                      !.width = m.width, !.height = m.height]
  ELSE [NoView EXCEPT !.kind = "screen", !.header = header(m),
                      !.body = Len(m.stack), !.model = Top(m).Model,
                      !.footer = footer(m)]

\* func (m *StackModel) View() string
View(m) ==
  IF m.loadingSpinner # Nil
  THEN [NoView EXCEPT !.kind = "loading", !.frame = m.loadingSpinner.frame,
                      !.width = m.width, !.height = m.height]
  ELSE IF Len(m.stack) = 0 THEN NoView
  ELSE [NoView EXCEPT !.kind = "screen", !.header = header(m),
                      !.body = Len(m.stack), !.model = Top(m).Model,
                      !.footer = footer(m)]

\* ----------------------------------------------------------------- runtime

\* The runtime takes the model a method left and executes the command it
\* returned: tea.Quit ends the session, the deferred size command and the
\* NextMsg wait to be run, a load task starts running.
ReturnModel(op, via, r, endedTasks) ==
  /\ stack' = r.m.stack
  /\ width' = r.m.width
  /\ height' = r.m.height
  /\ loadingSpinner' = r.m.loadingSpinner
  /\ status' = IF r.cmd.quit THEN "quit" ELSE "running"
  /\ nextMsg' = IF r.cmd.next # "" THEN r.cmd.next
                ELSE IF via THEN "" ELSE nextMsg
  /\ tasks' = tasks - endedTasks + (IF r.cmd.task THEN 1 ELSE 0)
  /\ last' = [op |-> op, via |-> via, cmd |-> r.cmd, fwd |-> r.fwd,
              sub |-> r.sub, clip |-> r.clip, depth |-> Len(stack)]

Return(op, via, r, endedTasks) ==
  /\ ReturnModel(op, via, r, endedTasks)
  /\ sizeCmd' = (sizeCmd \/ r.cmd.size)

Init ==
  /\ stack = <<>>
  /\ width = 0
  /\ height = 0
  /\ loadingSpinner = Nil
  /\ status = "new"
  /\ sizeCmd = FALSE
  /\ nextMsg = ""
  /\ tasks = 0
  /\ last = [op |-> NoMsg, via |-> FALSE, cmd |-> NoCmd, fwd |-> 0,
             sub |-> NoMsg, clip |-> NoClip, depth |-> 0]

\* The host (or a command action) pushes a screen.
HostPush ==
  /\ status \in {"new", "running"}
  /\ Len(stack) < MaxDepth
  /\ \E e \in HostEntries :
       Return([NoMsg EXCEPT !.type = "Push"], FALSE, Push(Self, e), 0)

\* The host pops.
HostPop ==
  /\ status = "running"
  /\ Return([NoMsg EXCEPT !.type = "Pop"], FALSE, Result(Pop(Self), NoCmd), 0)

\* The event loop dispatches msg to Update. The clipboard write of Ctrl+S
\* fails only while the error screen fits the bound on the depth.
Dispatch(msg, via, endedTasks) ==
  /\ status = "running"
  /\ \E clipOk \in BOOLEAN :
       /\ (~clipOk) => (msg.type = "KeyMsg" /\ msg.key = "CtrlS"
                        /\ Len(stack) \in 1 .. MaxDepth - 1)
       /\ Return(msg, via, Update(Self, msg, clipOk), endedTasks)

DispatchKey == \E k \in Keys : Dispatch(KeyMsg(k), FALSE, 0)

DispatchClearScreen ==
  /\ nextMsg = ""
  /\ \E n \in NextMsgs : Dispatch(ClearScreenMsg(n), FALSE, 0)

\* The command ClearScreenMsg returned delivers its NextMsg.
DispatchNextMsg ==
  /\ nextMsg # ""
  /\ Dispatch(NextMsgOf(nextMsg), TRUE, 0)

\* A load controller emits Loading-start.
DispatchLoadingData ==
  /\ tasks < MaxLoads
  /\ Dispatch(LoadingDataMsg, FALSE, 0)

\* A running load task completes and emits Loading-end.
DispatchDoneLoadingData ==
  /\ tasks > 0
  /\ Dispatch(DoneLoadingDataMsg, FALSE, 1)

DispatchError ==
  /\ Len(stack) < MaxDepth
  /\ \E e \in Errors : Dispatch(ErrorMsg(e), FALSE, 0)

\* A tick arrives: one of the loading spinner's own, or one of another
\* spinner (a screen's, or a loading spinner that has been replaced).
DispatchTick ==
  \E current \in BOOLEAN :
    /\ current => loadingSpinner # Nil
    /\ Dispatch(TickMsg(current), FALSE, 0)

DispatchDone == \E t \in DoneMessages : Dispatch(DoneMsg(t), FALSE, 0)

DispatchWindowSize ==
  \E s \in Sizes : Dispatch(WindowSizeMsg(s[1], s[2]), FALSE, 0)

DispatchOther == Dispatch(OtherMsg, FALSE, 0)

\* The runtime runs the deferred command of Push: it evaluates
\* m.StackSizeMsg() on the stack as it is now and dispatches the result.
\* footer() indexes the top of the stack: on an empty stack that is an
\* index out of range.
RunSizeCmd ==
  /\ status = "running"
  /\ sizeCmd
  /\ IF Len(stack) = 0
     THEN /\ status' = "panic"
          /\ sizeCmd' = FALSE
          /\ last' = [op |-> [NoMsg EXCEPT !.type = "SizeCmd"], via |-> FALSE,
                      cmd |-> NoCmd, fwd |-> 0, sub |-> NoMsg, clip |-> NoClip,
                      depth |-> 0]
          /\ UNCHANGED <<stack, width, height, loadingSpinner, nextMsg, tasks>>
     ELSE /\ sizeCmd' = FALSE
          /\ ReturnModel(StackSizeMsg(Self), FALSE,
                         Update(Self, StackSizeMsg(Self), TRUE), 0)

Next ==
  \/ HostPush
  \/ HostPop
  \/ DispatchKey
  \/ DispatchClearScreen
  \/ DispatchNextMsg
  \/ DispatchLoadingData
  \/ DispatchDoneLoadingData
  \/ DispatchError
  \/ DispatchTick
  \/ DispatchDone
  \/ DispatchWindowSize
  \/ DispatchOther
  \/ RunSizeCmd

Spec == Init /\ [][Next]_vars

\* ------------------------------------------------------------------ claims

\* The entries of s below its top.
Front(s) == SubSeq(s, 1, Len(s) - 1)

\* C1: every step changes the stack at its tail only: it appends one entry,
\* removes the top entry, empties the stack or leaves it as it is; Push
\* appends the pushed entry as the new top and Pop removes only the top. So
\* the top is always the most recently pushed entry not yet popped or cleared.
C1Step ==
  LET n == Len(stack)
      n2 == Len(stack')
  IN  /\ \/ n2 = n + 1 /\ SubSeq(stack', 1, n) = stack
         \/ n > 0 /\ stack' = Front(stack)
         \/ n2 = 0
         \/ stack' = stack
      /\ last'.op.type = "Push" =>
           /\ n2 = n + 1
           /\ SubSeq(stack', 1, n) = stack
           /\ stack'[n2] \in HostEntries
      /\ last'.op.type = "Pop" =>
           IF n = 0 THEN stack' = <<>> ELSE stack' = Front(stack)

C1_StackDiscipline == [][C1Step]_vars

C1_Witness ==
  /\ last.op.type = "Pop"
  /\ last.depth >= 2
  /\ Len(stack) = last.depth - 1

\* C2: the follow-up event of a ClearScreenMsg is dispatched with the session
\* continuing: it is not answered by ending the session.
C2_FollowUpContinues == last.via => status = "running"

\* C3: tea.Quit is returned only for the quit key, for a DoneMsg that empties
\* the stack or for an interrupt key that empties the stack; an event
\* dispatched while the stack has no top does not end the session.
C3_QuitOnlyOnRequest ==
  last.cmd.quit =>
    \/ last.op.type = "KeyMsg" /\ last.op.key = "CtrlC"
    \/ /\ last.op.type = "DoneMsg"
       /\ last.depth >= 1
       /\ Len(stack) = 0
    \/ /\ last.op.type = "KeyMsg" /\ last.op.key = "CtrlD"
       /\ last.depth >= 1
       /\ Len(stack) = 0

\* C4: an interrupt key that leaves the stack non-empty returns the effects of
\* a fresh push of the new top: the Init of the new top and of no other
\* screen, and the session-size command.
C4_InterruptReinitsTop ==
  ( /\ last.op.type = "KeyMsg" /\ last.op.key = "CtrlD"
    /\ last.depth >= 1
    /\ Len(stack) >= 1 ) =>
    /\ last.cmd.inits = {Len(stack)}
    /\ last.cmd.size

\* C5: a DoneMsg on a stack of depth N >= 1 removes the top entry and nothing
\* else; if N > 1 the session continues; if N = 1 the session ends with the
\* message printed before the quit.
C5Step ==
  ( /\ last'.op.type = "DoneMsg"
    /\ Len(stack) >= 1 ) =>
    /\ stack' = Front(stack)
    /\ IF Len(stack) > 1
       THEN /\ status' = "running"
            /\ ~last'.cmd.quit
       ELSE /\ status' = "quit"
            /\ last'.cmd.seq = <<"Println", "Quit">>
            /\ last'.cmd.println = last'.op.text

C6Step ==
  last'.op.type = "ErrorMsg" =>
    LET n == Len(stack)
    IN  /\ Len(stack') \in {n, n + 1}
        /\ SubSeq(stack', 1, n) = stack
        /\ n > 0 =>
             stack' = Append(stack,
                        ModelWithCmd(NewErrorModel(last'.op.text), "", ""))

C6_ErrorOnlyAppends == [][C6Step]_vars

C6_Witness ==
  /\ last.op.type = "ErrorMsg"
  /\ last.depth >= 2
  /\ Len(stack) = last.depth + 1
  /\ stack[Len(stack)].Model.kind = "error"

\* C7: every operation that pushes a screen (Push, an ErrorMsg, a failed
\* clipboard write) hands the new top's Init command and a session-size
\* command to the runtime, so that the screen is initialized and sized.
C7_PushInitsAndSizes ==
  Len(stack) = last.depth + 1 =>
    /\ Len(stack) \in last.cmd.inits
    /\ last.cmd.size

\* C8: while the session runs the loading spinner is present exactly while a
\* load task is outstanding.
C8_SpinnerIffOutstanding ==
  status = "running" => ((tasks > 0) <=> (loadingSpinner # Nil))

\* C9: the only event whose dispatch removes an installed loading spinner is
\* DoneLoadingDataMsg.
C9Step ==
  (loadingSpinner # Nil /\ loadingSpinner' = Nil) =>
    last'.op.type = "DoneLoadingDataMsg"

C9_OnlyLoadingEndClears == [][C9Step]_vars

C9_Witness ==
  /\ loadingSpinner # Nil
  /\ last.op.type = "DoneMsg"
  /\ status = "running"

\* C10: a load task starts running only in the step that dispatches its
\* LoadingDataMsg and installs the spinner, a DoneLoadingDataMsg is dispatched
\* only for a task that was started, and there is at most one spinner.
C10Step ==
  /\ tasks' > tasks =>
       /\ last'.op.type = "LoadingDataMsg"
       /\ last'.cmd.task
       /\ loadingSpinner' # Nil
  /\ last'.op.type = "DoneLoadingDataMsg" => tasks > 0

GlobalKeys == {"CtrlC", "CtrlD", "CtrlS"}

C11_GlobalKeysNotForwarded ==
  last.op.type = "KeyMsg" =>
    IF last.op.key \in GlobalKeys
    THEN last.fwd = 0
    ELSE last.depth >= 1 => (last.fwd = Len(stack) /\ last.sub = last.op)

\* C12: the copy-command key writes the clipboard if and only if the top
\* entry's Cmd is non-empty, and what it writes is that entry's Cmd.
C12_CopyOnlyNonEmptyCmd ==
  ( /\ last.op.type = "KeyMsg" /\ last.op.key = "CtrlS"
    /\ last.depth >= 1 ) =>
    /\ last.clip.written <=> (stack[last.depth].Cmd # "")
    /\ last.clip.written => last.clip.text = stack[last.depth].Cmd

\* C13 as stated: a tick without a loading spinner changes nothing, reaches no
\* screen and schedules no tick; with a loading spinner it advances the frame
\* and schedules the next tick without touching the entries.
C13OriginalStep ==
  last'.op.type = "TickMsg" =>
    IF loadingSpinner = Nil
    THEN /\ <<stack, width, height, loadingSpinner>>' =
              <<stack, width, height, loadingSpinner>>
         /\ last'.fwd = 0
         /\ ~last'.cmd.tick
    ELSE /\ loadingSpinner'.frame = (loadingSpinner.frame + 1) % SpinnerFrames
         /\ last'.cmd.tick
         /\ stack' = stack

C13_TickIgnoredWithoutSpinner == [][C13OriginalStep]_vars

\* C13 amended: a tick never changes the entries or the dimensions. Without a
\* loading spinner the stack schedules no tick and leaves the spinner absent,
\* and the tick is forwarded unchanged to the top screen and to no other.
\* With a loading spinner on a non-empty stack the tick goes to the spinner
\* alone: a tick of its own advances the frame and schedules the next tick,
\* any other tick changes nothing; no screen receives it.
C13Step ==
  last'.op.type = "TickMsg" =>
    /\ <<stack, width, height>>' = <<stack, width, height>>
    /\ IF loadingSpinner = Nil
       THEN /\ loadingSpinner' = Nil
            /\ ~last'.cmd.tick
            /\ last'.fwd = Len(stack)
            /\ last'.fwd # 0 => last'.sub = last'.op
       ELSE /\ last'.fwd = 0
            /\ Len(stack) >= 1 =>
                 IF last'.op.current
                 THEN /\ loadingSpinner'.frame =
                           (loadingSpinner.frame + 1) % SpinnerFrames
                      /\ last'.cmd.tick
                 ELSE /\ loadingSpinner' = loadingSpinner
                      /\ ~last'.cmd.tick

C13_TickForwardedWithoutSpinner == [][C13Step]_vars

C13_Witness ==
  /\ last.op.type = "TickMsg"
  /\ loadingSpinner = Nil
  /\ Len(stack) >= 2
  /\ last.fwd = Len(stack)
  /\ status = "running"

\* C14: a resize (W, H) on a non-empty stack records W and H and forwards to
\* the top screen a StackSizeMsg with Width = W and
\* Height = H - header height - footer height; no screen receives the raw
\* resize.
C14_ResizeForwardsStackSize ==
  /\ last.sub.type # "WindowSizeMsg"
  /\ (last.op.type = "WindowSizeMsg" /\ last.depth >= 1) =>
       /\ width = last.op.Width
       /\ height = last.op.Height
       /\ last.fwd = Len(stack)
       /\ last.sub.type = "StackSizeMsg"
       /\ last.sub.Width = last.op.Width
       /\ last.sub.Height = last.op.Height - HeaderHeight - FooterHeight

C14_Witness ==
  /\ last.op = WindowSizeMsg(100, 40)
  /\ last.depth >= 1
  /\ last.sub.Width = 100
  /\ last.sub.Height = 40 - HeaderHeight - FooterHeight

\* C15: on a non-empty stack the footer shows the quit binding always, the
\* previous-command binding iff the depth is above 1 and the copy binding iff
\* the top entry's Cmd is non-empty.
C15_FooterBindings ==
  Len(stack) >= 1 =>
    footer(Self) =
      "Navigation: [Ctrl+C] Quit"
      \o (IF Len(stack) > 1 THEN " [Ctrl+D] Previous command" ELSE "")
      \o (IF stack[Len(stack)].Cmd # ""
          THEN " [Ctrl+S] Copy command to clipboard" ELSE "")

C15_Witness ==
  /\ Len(stack) = 1
  /\ stack[1].Cmd # ""
  /\ footer(Self) = "Navigation: [Ctrl+C] Quit [Ctrl+S] Copy command to clipboard"
  /\ last.op.type = "KeyMsg" /\ last.op.key = "CtrlD"

\* C16: the header is the non-empty breadcrumbs of the entries, bottom to top,
\* joined by " > "; entries without a breadcrumb add neither text nor a
\* separator. Services then Deploy gives "Services > Deploy"; an interrupt
\* key at depth 2 leaves the bottom entry's header; an interrupt key at
\* depth 1 ends the session.
WithBreadcrumb(e) == e.Breadcrumb # ""

RECURSIVE JoinFromTop(_)
JoinFromTop(s) ==
  IF Len(s) = 0 THEN ""
  ELSE IF Len(s) = 1 THEN s[1].Breadcrumb
  ELSE JoinFromTop(Front(s)) \o " > " \o s[Len(s)].Breadcrumb

C16Header ==
  /\ header(Self) = JoinFromTop(SelectSeq(stack, WithBreadcrumb))
  /\ ( /\ Len(stack) >= 2
       /\ stack[1].Breadcrumb = "Services"
       /\ stack[Len(stack)].Breadcrumb = "Deploy"
       /\ \A i \in 2 .. Len(stack) - 1 : stack[i].Breadcrumb = "" ) =>
       header(Self) = "Services > Deploy"

C16Step ==
  (last'.op.type = "KeyMsg" /\ last'.op.key = "CtrlD") =>
    /\ ( /\ Len(stack) = 2
         /\ stack[1].Breadcrumb = "Services" ) =>
         /\ Len(stack') = 1
         /\ header([stack |-> stack']) = "Services"
         /\ status' = "running"
    /\ Len(stack) = 1 => status' = "quit"

C16_HeaderIsBreadcrumbTrail == []C16Header /\ [][C16Step]_vars

C16_Witness ==
  /\ Len(stack) = 3
  /\ stack[2].Breadcrumb = ""
  /\ header(Self) = "Services > Deploy"

\* C17: View() renders the spinner overlay and nothing of the stack while a
\* loading spinner is set, even on an empty stack; otherwise nothing on an
\* empty stack; otherwise the header, the top screen's view and the footer.
C17_ViewPrecedence ==
  LET v == View(Self)
  IN  IF loadingSpinner # Nil
      THEN v.kind = "loading" /\ v.body = 0 /\ v.header = "" /\ v.footer = ""
      ELSE IF Len(stack) = 0
      THEN v = NoView
      ELSE /\ v.kind = "screen"
           /\ v.header = header(Self)
           /\ v.body = Len(stack)
           /\ v.model = stack[Len(stack)].Model
           /\ v.footer = footer(Self)

C17_Witness ==
  /\ loadingSpinner # Nil
  /\ Len(stack) = 0
  /\ status = "running"
  /\ View(Self).kind = "loading"

\* C18: a dispatched event calls the Update of the top screen or of none; an
\* event that neither pops nor clears keeps every entry below the top as it
\* was; LoadingDataMsg and DoneLoadingDataMsg leave the stack as it is.
C18PopsOrClears(msg) ==
  \/ msg.type \in {"DoneMsg", "ClearScreenMsg"}
  \/ msg.type = "KeyMsg" /\ msg.key = "CtrlD"

C18Step ==
  last'.op.type \notin {"Push", "Pop", "SizeCmd"} =>
    /\ last'.fwd \in {0, Len(stack')}
    /\ (~ C18PopsOrClears(last'.op)) =>
         /\ Len(stack') >= Len(stack)
         /\ \A i \in 1 .. Len(stack) - 1 : stack'[i] = stack[i]
    /\ last'.op.type \in {"LoadingDataMsg", "DoneLoadingDataMsg"} =>
         stack' = stack

C18_OnlyTopReceives == [][C18Step]_vars

C18_Witness ==
  /\ last.op.type = "OtherMsg"
  /\ Len(stack) >= 2
  /\ last.fwd = Len(stack)

\* C19: the deferred session-size command of Push is never evaluated on an
\* empty stack: footer() never indexes the top of an empty stack.
C19_SizeCmdNeverOnEmptyStack == status # "panic"

\* C20: every StackSizeMsg the stack produces carries a non-negative Width
\* and a non-negative Height.
C20_StackSizeNonNegative ==
  last.sub.type = "StackSizeMsg" =>
    /\ last.sub.Width >= 0
    /\ last.sub.Height >= 0

\* C21: Pop on an empty stack leaves it empty, and Pop on a stack of depth
\* N >= 1 leaves the N-1 entries below the top; in both cases Pop changes
\* neither the dimensions nor the loading spinner, returns no command,
\* forwards no event and writes nothing, so popping more often than there are
\* entries ends at the empty stack with the session still running.
C21Step ==
  last'.op.type = "Pop" =>
    /\ IF Len(stack) = 0 THEN stack' = <<>>
       ELSE /\ Len(stack') = Len(stack) - 1
            /\ stack' = Front(stack)
    /\ width' = width
    /\ height' = height
    /\ loadingSpinner' = loadingSpinner
    /\ status' = status
    /\ sizeCmd' = sizeCmd
    /\ nextMsg' = nextMsg
    /\ tasks' = tasks
    /\ last'.cmd = NoCmd
    /\ last'.fwd = 0
    /\ last'.sub = NoMsg
    /\ last'.clip = NoClip

C21_PopIsFrameSafe == [][C21Step]_vars

C21_Witness ==
  /\ last.op.type = "Pop"
  /\ last.depth = 0
  /\ Len(stack) = 0
  /\ loadingSpinner # Nil
  /\ width > 0
  /\ status = "running"

====
